---- MODULE Spec2Model ----
(***************************************************************************)
(* Model of generate_gameindex.py: the main script (rotation load, dates   *)
(* load) and generate_game_files, the per-game record assembler.           *)
(*                                                                         *)
(* Encoding of Python/pandas values:                                       *)
(*   - a string is a sequence of one-character strings;                    *)
(*   - None and NaN (an empty CSV cell) are the empty sequence <<>>, a     *)
(*     present scalar v is <<v>>; a present string cell is the non-empty   *)
(*     string itself;                                                      *)
(*   - a DataFrame is a sequence of row records; a missing file is         *)
(*     [exists |-> FALSE, ...]; a file pd.read_csv cannot parse is         *)
(*     [exists |-> TRUE, parses |-> FALSE, ...].                           *)
(***************************************************************************)
EXTENDS Integers, Sequences, FiniteSets, TLC

\* ---- bounds ----
MaxGames == 2
MaxRuns == 2
MaxDateRows == 2
MaxRotRows == 2
MaxPbpRows == 2
MaxLen == 5
MaxStarterRows == 3

GameIds == 1..MaxGames

None == <<>>
NaN == <<>>
Some(v) == <<v>>

\* Python truthiness of a team id: "not x" holds for None and for 0.
Falsy(x) == x = None \/ x = Some(0)

\* ---- strings ----
DigitChars == <<"0", "1", "2", "3", "4", "5", "6", "7", "8", "9">>

IsDigit(c) == \E i \in 1..10 : DigitChars[i] = c

DigitVal(c) == (CHOOSE i \in 1..10 : DigitChars[i] = c) - 1

RECURSIVE StrNat(_)
StrNat(n) == IF n < 10 THEN <<DigitChars[n + 1]>>
             ELSE StrNat(n \div 10) \o <<DigitChars[(n % 10) + 1]>>

\* str(n) for an integer n.
Str(n) == IF n < 0 THEN <<"-">> \o StrNat(0 - n) ELSE StrNat(n)

\* True when sep occurs in s starting at position i.
MatchAt(s, sep, i) ==
    /\ i + Len(sep) - 1 <= Len(s)
    /\ \A k \in 1..Len(sep) : s[i + k - 1] = sep[k]

RECURSIVE SplitFrom(_, _, _, _)
SplitFrom(s, sep, i, cur) ==
    IF i > Len(s) THEN <<cur>>
    ELSE IF MatchAt(s, sep, i)
         THEN <<cur>> \o SplitFrom(s, sep, i + Len(sep), <<>>)
         ELSE SplitFrom(s, sep, i + 1, Append(cur, s[i]))

\* str.split(sep): non-overlapping occurrences of sep, scanned left to right.
Split(s, sep) == SplitFrom(s, sep, 1, <<>>)

RECURSIVE LStrip(_)
LStrip(s) == IF s # <<>> /\ s[1] = " " THEN LStrip(Tail(s)) ELSE s

RECURSIVE RStrip(_)
RStrip(s) == IF s # <<>> /\ s[Len(s)] = " " THEN RStrip(SubSeq(s, 1, Len(s) - 1)) ELSE s

Strip(s) == RStrip(LStrip(s))

\* Digits with single underscores allowed between digits (Python int literal body).
IsIntBody(b) ==
    /\ b # <<>>
    /\ IsDigit(b[1])
    /\ IsDigit(b[Len(b)])
    /\ \A i \in 1..Len(b) : IsDigit(b[i]) \/ b[i] = "_"
    /\ \A i \in 1..(Len(b) - 1) : ~(b[i] = "_" /\ b[i + 1] = "_")

RECURSIVE BodyVal(_, _)
BodyVal(b, acc) ==
    IF b = <<>> THEN acc
    ELSE IF b[1] = "_" THEN BodyVal(Tail(b), acc)
         ELSE BodyVal(Tail(b), 10 * acc + DigitVal(b[1]))

\* int(s): surrounding whitespace stripped, optional sign, digits.
\* Result [ok |-> FALSE] stands for ValueError.
ParseInt(s) ==
    LET t == Strip(s)
        signed == t # <<>> /\ t[1] \in {"+", "-"}
        b == IF signed THEN Tail(t) ELSE t
    IN  IF IsIntBody(b)
        THEN [ok |-> TRUE,
              val |-> IF signed /\ t[1] = "-" THEN 0 - BodyVal(b, 0) ELSE BodyVal(b, 0)]
        ELSE [ok |-> FALSE, val |-> 0]

\* ---- dates ----
IsLeap(y) == (y % 4 = 0 /\ y % 100 # 0) \/ y % 400 = 0

DaysInMonth(y, m) ==
    IF m = 2 THEN (IF IsLeap(y) THEN 29 ELSE 28)
    ELSE IF m \in {4, 6, 9, 11} THEN 30 ELSE 31

\* pd.to_datetime(s, format='%Y%m%d').strftime('%Y-%m-%d') on an 8-character
\* string; [ok |-> FALSE] stands for the ValueError raised when the text is
\* not eight digits naming a calendar day.
ReformatDate(s) ==
    IF Len(s) = 8 /\ \A i \in 1..8 : IsDigit(s[i])
    THEN LET y == BodyVal(SubSeq(s, 1, 4), 0)
             m == BodyVal(SubSeq(s, 5, 6), 0)
             d == BodyVal(SubSeq(s, 7, 8), 0)
         IN  IF y >= 1 /\ m \in 1..12 /\ d \in 1..DaysInMonth(y, m)
             THEN [ok |-> TRUE,
                   val |-> SubSeq(s, 1, 4) \o <<"-">> \o SubSeq(s, 5, 6) \o <<"-">> \o SubSeq(s, 7, 8)]
             ELSE [ok |-> FALSE, val |-> <<>>]
    ELSE [ok |-> FALSE, val |-> <<>>]

\* ---- frames ----
RECURSIVE UniqueFrom(_, _)
UniqueFrom(s, seen) ==
    IF s = <<>> THEN <<>>
    ELSE IF s[1] \in seen THEN UniqueFrom(Tail(s), seen)
         ELSE <<s[1]>> \o UniqueFrom(Tail(s), seen \cup {s[1]})

\* Series.unique(): distinct values in order of first appearance.
Unique(s) == UniqueFrom(s, {})

Column(df, f(_)) == [i \in 1..Len(df) |-> f(df[i])]

RowGameId(r) == r.GAME_ID
RowTeamId(r) == r.TEAM_ID
RowPersonIdStr(r) == Str(r.PERSON_ID)
RowScore(r) == r.SCORE

\* DataFrame.empty
Empty(df) == df = <<>>

\* Line 194: the rotation load returned rows.
RotationLoaded(df) == ~Empty(df)

\* The check of line 203 left out.
DatesLoaded_Always(df) == TRUE

\* Line 203: the dates frame has rows after the season filter.
DatesLoaded(df) == ~Empty(df)

\* The check of line 83 left out.
OutputExists_Never(dir, game_id) == FALSE

\* os.path.exists(output_file_path)
OutputExists(dir, game_id) == dir[game_id] # None

\* rotation_df[rotation_df["GAME_ID"].astype(str) == str(game_id)]
GameRotations(rotation_df, game_id) ==
    SelectSeq(rotation_df, LAMBDA r : Str(r.GAME_ID) = Str(game_id))

\* dates_df[dates_df["GAME_ID"].astype(str) == str(game_id)]
GameDatesInfo(dates_df, game_id) ==
    SelectSeq(dates_df, LAMBDA r : Str(r.GAME_ID) = Str(game_id))

\* Method 1 with the two comparisons exchanged.
PrimaryTeams_Swapped(game_dates_info) ==
    LET homeRows == SelectSeq(game_dates_info, LAMBDA r : r.team # r.HTM)
        awayRows == SelectSeq(game_dates_info, LAMBDA r : r.team = r.HTM)
    IN  IF Empty(homeRows) \/ Empty(awayRows)
        THEN [ok |-> FALSE, home |-> None, away |-> None]
        ELSE [ok |-> TRUE, home |-> Some(homeRows[1].TEAM_ID),
              away |-> Some(awayRows[1].TEAM_ID)]

\* Method 1: first row with team == HTM and first row with team != HTM;
\* [ok |-> FALSE] stands for the IndexError of .iloc[0] on an empty frame.
PrimaryTeams(game_dates_info) ==
    LET homeRows == SelectSeq(game_dates_info, LAMBDA r : r.team = r.HTM)
        awayRows == SelectSeq(game_dates_info, LAMBDA r : r.team # r.HTM)
    IN  IF Empty(homeRows) \/ Empty(awayRows)
        THEN [ok |-> FALSE, home |-> None, away |-> None]
        ELSE [ok |-> TRUE, home |-> Some(homeRows[1].TEAM_ID),
              away |-> Some(awayRows[1].TEAM_ID)]

\* Method 2 reading the last home-description row (.iloc[-1]).
FallbackTeams_LastEvent(game_rotations, pbp) ==
    IF ~pbp.exists
    THEN [kind |-> "no_pbp", home |-> None, away |-> None]
    ELSE LET homeEvents == SelectSeq(pbp.rows, LAMBDA r : r.HOMEDESCRIPTION # NaN)
         IN  IF ~pbp.parses \/ Empty(homeEvents) \/
                homeEvents[Len(homeEvents)].PLAYER1_TEAM_ID = NaN
             THEN [kind |-> "exception", home |-> None, away |-> None]
             ELSE LET home_team_id == homeEvents[Len(homeEvents)].PLAYER1_TEAM_ID[1]
                      all_teams_in_game == Unique(Column(game_rotations, RowTeamId))
                      others == SelectSeq(all_teams_in_game, LAMBDA t : t # home_team_id)
                      away_team_id == IF Len(all_teams_in_game) >= 2
                                      THEN Some(others[1]) ELSE None
                  IN  IF Falsy(away_team_id) \/ Some(home_team_id) = away_team_id
                      THEN [kind |-> "indistinct", home |-> Some(home_team_id),
                            away |-> away_team_id]
                      ELSE [kind |-> "ok", home |-> Some(home_team_id),
                            away |-> away_team_id]

\* Method 2: home from the first PBP row whose HOMEDESCRIPTION is present,
\* away the first other team id of the rotation rows. kind is "ok" or the
\* reason the game is skipped.
FallbackTeams(game_rotations, pbp) ==
    IF ~pbp.exists
    THEN [kind |-> "no_pbp", home |-> None, away |-> None]
    ELSE LET homeEvents == SelectSeq(pbp.rows, LAMBDA r : r.HOMEDESCRIPTION # NaN)
         IN  IF ~pbp.parses \/ Empty(homeEvents) \/ homeEvents[1].PLAYER1_TEAM_ID = NaN
             THEN [kind |-> "exception", home |-> None, away |-> None]
             ELSE LET home_team_id == homeEvents[1].PLAYER1_TEAM_ID[1]
                      all_teams_in_game == Unique(Column(game_rotations, RowTeamId))
                      others == SelectSeq(all_teams_in_game, LAMBDA t : t # home_team_id)
                      away_team_id == IF Len(all_teams_in_game) >= 2
                                      THEN Some(others[1]) ELSE None
                  IN  IF Falsy(away_team_id) \/ Some(home_team_id) = away_team_id
                      THEN [kind |-> "indistinct", home |-> Some(home_team_id),
                            away |-> away_team_id]
                      ELSE [kind |-> "ok", home |-> Some(home_team_id),
                            away |-> away_team_id]

\* Final score: last non-empty SCORE cell split on " - ", both halves through
\* int(); every failure leaves (None, None). err says the except clause ran
\* (read_csv or int() raised).
NoScore(err) == [home |-> None, away |-> None, err |-> err]

\* Score extraction reading the first non-empty SCORE cell (.iloc[0]).
FinalScore_FirstCell(pbp) ==
    IF ~pbp.exists THEN NoScore(FALSE)
    ELSE IF ~pbp.parses THEN NoScore(TRUE)
    ELSE LET final_score_series == SelectSeq(Column(pbp.rows, RowScore), LAMBDA c : c # NaN)
         IN  IF Empty(final_score_series) THEN NoScore(FALSE)
             ELSE LET score_parts == Split(final_score_series[1], <<" ", "-", " ">>)
                  IN  IF Len(score_parts) # 2 THEN NoScore(FALSE)
                      ELSE LET h == ParseInt(score_parts[1])
                               a == ParseInt(score_parts[2])
                           IN  IF h.ok /\ a.ok
                               THEN [home |-> Some(h.val), away |-> Some(a.val),
                                     err |-> FALSE]
                               ELSE NoScore(TRUE)

FinalScore(pbp) ==
    IF ~pbp.exists THEN NoScore(FALSE)
    ELSE IF ~pbp.parses THEN NoScore(TRUE)
    ELSE LET final_score_series == SelectSeq(Column(pbp.rows, RowScore), LAMBDA c : c # NaN)
         IN  IF Empty(final_score_series) THEN NoScore(FALSE)
             ELSE LET score_parts == Split(final_score_series[Len(final_score_series)],
                                           <<" ", "-", " ">>)
                  IN  IF Len(score_parts) # 2 THEN NoScore(FALSE)
                      ELSE LET h == ParseInt(score_parts[1])
                               a == ParseInt(score_parts[2])
                           IN  IF h.ok /\ a.ok
                               THEN [home |-> Some(h.val), away |-> Some(a.val),
                                     err |-> FALSE]
                               ELSE NoScore(TRUE)

\* {str(PERSON_ID): "FIRST LAST"} over the rows; a later row overwrites.
NameDict(game_rotations) ==
    LET keys == {Str(game_rotations[i].PERSON_ID) : i \in 1..Len(game_rotations)}
        Last(k) == CHOOSE i \in 1..Len(game_rotations) :
                      /\ Str(game_rotations[i].PERSON_ID) = k
                      /\ \A j \in (i + 1)..Len(game_rotations) :
                            Str(game_rotations[j].PERSON_ID) # k
    IN  [k \in keys |-> <<game_rotations[Last(k)].PLAYER_FIRST, " ",
                          game_rotations[Last(k)].PLAYER_LAST>>]

RECURSIVE Join(_, _)
Join(sep, parts) ==
    IF parts = <<>> THEN <<>>
    ELSE IF Len(parts) = 1 THEN parts[1]
         ELSE parts[1] \o sep \o Join(sep, Tail(parts))

\* The starter test as "entered within the first tenth of a second".
IsStarter_Early(r) == r.IN_TIME_REAL <= 1

\* game_rotations["IN_TIME_REAL"] == 0.0
IsStarter(r) == r.IN_TIME_REAL = 0

\* ','.join(starters["PERSON_ID"].astype(str).tolist())
StarterOn(game_rotations) ==
    Join(<<",">>, Column(SelectSeq(game_rotations, IsStarter), RowPersonIdStr))

Logo(team_id) == <<"https://cdn.nba.com/logos/nba/", Str(team_id), "/primary/L/logo.svg">>

\* ---- one iteration of the loop of generate_game_files ----
Msg(game_id, text) == [game |-> game_id, msg |-> text]

Skip(game_id, kind, msgs) ==
    [kind |-> kind, log |-> [i \in 1..Len(msgs) |-> Msg(game_id, msgs[i])], record |-> None]

\* Lines 139-177, once both team ids are known.
EmitRecord(game_id, game_rotations, game_date_str, pbp, home, away, msgs) ==
    LET homeDetails == SelectSeq(game_rotations, LAMBDA r : r.TEAM_ID = home)
        awayDetails == SelectSeq(game_rotations, LAMBDA r : r.TEAM_ID = away)
        score == FinalScore(pbp)
        scoreMsgs == IF score.err THEN <<"Error processing PBP file">> ELSE <<>>
        date == ReformatDate(game_date_str)
    IN  IF Empty(homeDetails) \/ Empty(awayDetails)
        THEN Skip(game_id, "no_details",
                  msgs \o <<"Warning: Could not find team details in rotation data">>)
        ELSE IF ~date.ok
        THEN Skip(game_id, "raised", msgs \o scoreMsgs \o <<"ValueError">>)
        ELSE [kind |-> "written",
              log |-> [i \in 1..Len(msgs \o scoreMsgs) |-> Msg(game_id, (msgs \o scoreMsgs)[i])],
              record |-> Some(
                [homeTeam |-> [name |-> homeDetails[1].TEAM_NAME, score |-> score.home,
                               logo |-> Logo(home)],
                 awayTeam |-> [name |-> awayDetails[1].TEAM_NAME, score |-> score.away,
                               logo |-> Logo(away)],
                 game_id |-> Str(game_id),
                 date |-> date.val,
                 status |-> "Final",
                 players |-> NameDict(game_rotations),
                 starter_on |-> StarterOn(game_rotations)])]

\* Lines 82-177 for one game id; exists says whether the output file is there.
Assemble(game_id, rotation_df, dates_df, pbp, exists) ==
    LET game_rotations == GameRotations(rotation_df, game_id)
        game_dates_info == GameDatesInfo(dates_df, game_id)
        primary == PrimaryTeams(game_dates_info)
        fallback == FallbackTeams(game_rotations, pbp)
        fbMsg == <<"Info not in dates file. Trying PBP fallback...">>
    IN  IF exists THEN Skip(game_id, "exists", <<>>)
        ELSE IF Empty(game_rotations)
        THEN Skip(game_id, "no_rotation", <<"Warning: Skipping game due to missing rotation data.">>)
        ELSE IF Empty(game_dates_info)
        THEN Skip(game_id, "no_dates", <<"Warning: Could not find date info. Skipping.">>)
        ELSE IF primary.ok
        THEN IF Falsy(primary.home) \/ Falsy(primary.away)
             THEN Skip(game_id, "unidentified", <<"Warning: Failed to identify teams. Skipping.">>)
             ELSE EmitRecord(game_id, game_rotations, game_dates_info[1].date, pbp,
                             primary.home[1], primary.away[1], <<>>)
        ELSE IF fallback.kind = "no_pbp"
        THEN Skip(game_id, "no_pbp",
                  fbMsg \o <<"Warning: No PBP file found to use as fallback. Skipping.">>)
        ELSE IF fallback.kind = "exception"
        THEN Skip(game_id, "pbp_exception",
                  fbMsg \o <<"Warning: Could not determine teams from PBP. Skipping.">>)
        ELSE IF fallback.kind = "indistinct"
        THEN Skip(game_id, "indistinct",
                  fbMsg \o <<"Warning: Could not distinguish home/away teams from PBP. Skipping.">>)
        ELSE IF Falsy(fallback.home) \/ Falsy(fallback.away)
        THEN Skip(game_id, "unidentified",
                  fbMsg \o <<"Warning: Failed to identify teams. Skipping.">>)
        ELSE EmitRecord(game_id, game_rotations, game_dates_info[1].date, pbp,
                        fallback.home[1], fallback.away[1], fbMsg)

\* ---- main script: loading ----
Ord(c) == IF c = "-" THEN 0 ELSE DigitVal(c) + 1

RECURSIVE StrGE(_, _)
\* a >= b on strings (lexicographic on character codes).
StrGE(a, b) ==
    IF b = <<>> THEN TRUE
    ELSE IF a = <<>> THEN FALSE
    ELSE IF Ord(a[1]) # Ord(b[1]) THEN Ord(a[1]) > Ord(b[1])
    ELSE StrGE(Tail(a), Tail(b))

FirstSeason == <<"2", "0", "1", "3", "-", "1", "4">>

\* dates_data[dates_data.season >= '2013-14']
SeasonFilter(df) == SelectSeq(df, LAMBDA r : StrGE(r.season, FirstSeason))

VARIABLES
    pc,               \* position of the script
    run,              \* number of the current run of the script
    rotation_disk,    \* rows of the rotation CSV files on disk
    dates_remote,     \* rows of the remote game_dates.csv
    pbp_files,        \* game id -> play-by-play file
    rotation_data,    \* result of fetch_rotation_data
    dates_data,       \* dates frame after the season filter
    files,            \* game id -> content of {output_dir}/{game_id}.json
    game_ids,         \* dates_df["GAME_ID"].unique()
    idx,              \* position of the loop in game_ids
    generated_count,
    skipped_count,
    log,              \* what the current run printed
    files_at_start,   \* output directory when the current run started
    prev_completed    \* the previous run reached "Processing Complete"

vars == <<pc, run, rotation_disk, dates_remote, pbp_files, rotation_data, dates_data,
          files, game_ids, idx, generated_count, skipped_count, log, files_at_start,
          prev_completed>>

inputs == <<rotation_disk, dates_remote, pbp_files>>

ApiOutcomes == {"unavailable", "raises", "unreadable", "ok"}

\* Line 192 with fetch_rotation_data (lines 16-61). api: nba_api missing,
\* get_teams() raising, every CSV failing to load, or all of them loading.
FetchRotationData ==
    /\ pc = "main"
    /\ \E api \in ApiOutcomes :
          /\ rotation_data' = IF api = "ok" THEN rotation_disk ELSE <<>>
          /\ log' = log \o
                (IF api = "unavailable"
                 THEN <<Msg(0, "WARNING: nba_api not available."),
                        Msg(0, "--- Halting execution: No team IDs were loaded. ---")>>
                 ELSE IF api = "raises"
                 THEN <<Msg(0, "ERROR: Unable to fetch team IDs from API"),
                        Msg(0, "--- Halting execution: No team IDs were loaded. ---")>>
                 ELSE IF api = "unreadable" \/ Empty(rotation_disk)
                 THEN <<Msg(0, "Warning: No rotation data was loaded.")>>
                 ELSE <<>>)
    /\ pc' = "rotation_loaded"
    /\ UNCHANGED <<run, inputs, dates_data, files, game_ids, idx, generated_count,
                   skipped_count, files_at_start, prev_completed>>

\* Lines 194, 210-211.
HaltNoRotation ==
    /\ pc = "rotation_loaded"
    /\ ~RotationLoaded(rotation_data)
    /\ log' = Append(log, Msg(0, "Halting execution because no rotation data could be loaded."))
    /\ pc' = "ended"
    /\ UNCHANGED <<run, inputs, rotation_data, dates_data, files, game_ids, idx,
                   generated_count, skipped_count, files_at_start, prev_completed>>

\* Lines 195-201: read the remote CSV and filter it by season.
LoadDates ==
    /\ pc = "rotation_loaded"
    /\ RotationLoaded(rotation_data)
    /\ \E reachable \in BOOLEAN :
          /\ dates_data' = IF reachable THEN SeasonFilter(dates_remote) ELSE <<>>
          /\ log' = Append(log, Msg(0, IF reachable
                                       THEN "Successfully loaded and filtered game dates file."
                                       ELSE "Fatal Error: Could not load game dates file from URL."))
    /\ pc' = "dates_loaded"
    /\ UNCHANGED <<run, inputs, rotation_data, files, game_ids, idx, generated_count,
                   skipped_count, files_at_start, prev_completed>>

\* Line 203 false: the script ends without calling generate_game_files.
EndNoDates ==
    /\ pc = "dates_loaded"
    /\ ~DatesLoaded(dates_data)
    /\ pc' = "ended"
    /\ UNCHANGED <<run, inputs, rotation_data, dates_data, files, game_ids, idx,
                   generated_count, skipped_count, log, files_at_start, prev_completed>>

\* Lines 203-204 and 71-79: call generate_game_files and enter its loop.
StartGenerate ==
    /\ pc = "dates_loaded"
    /\ DatesLoaded(dates_data)
    /\ game_ids' = Unique(Column(dates_data, RowGameId))
    /\ idx' = 1
    /\ generated_count' = 0
    /\ skipped_count' = 0
    /\ log' = Append(log, Msg(0, "Found unique games to process."))
    /\ pc' = "loop"
    /\ UNCHANGED <<run, inputs, rotation_data, dates_data, files, files_at_start,
                   prev_completed>>

\* Lines 81-177: the loop body for game_ids[idx]. An exception that no except
\* clause catches ends the script.
ProcessGame ==
    /\ pc = "loop"
    /\ idx <= Len(game_ids)
    /\ \E res \in {Assemble(game_ids[idx], rotation_data, dates_data,
                           pbp_files[game_ids[idx]], OutputExists(files, game_ids[idx]))} :
          /\ files' = IF res.kind = "written"
                      THEN [files EXCEPT ![game_ids[idx]] = res.record] ELSE files
          /\ generated_count' = generated_count + (IF res.kind = "written" THEN 1 ELSE 0)
          /\ skipped_count' = skipped_count + (IF res.kind = "exists" THEN 1 ELSE 0)
          /\ log' = log \o res.log
          /\ pc' = IF res.kind = "raised" THEN "crashed" ELSE "loop"
    /\ idx' = idx + 1
    /\ UNCHANGED <<run, inputs, rotation_data, dates_data, game_ids, files_at_start,
                   prev_completed>>

\* Lines 179-181.
FinishGenerate ==
    /\ pc = "loop"
    /\ idx > Len(game_ids)
    /\ log' = Append(log, Msg(0, "--- Processing Complete ---"))
    /\ pc' = "done"
    /\ UNCHANGED <<run, inputs, rotation_data, dates_data, files, game_ids, idx,
                   generated_count, skipped_count, files_at_start, prev_completed>>

\* The script is started again on the same inputs and output directory.
Rerun ==
    /\ pc \in {"ended", "done", "crashed"}
    /\ run < MaxRuns
    /\ run' = run + 1
    /\ pc' = "main"
    /\ rotation_data' = <<>>
    /\ dates_data' = <<>>
    /\ game_ids' = <<>>
    /\ idx' = 1
    /\ generated_count' = 0
    /\ skipped_count' = 0
    /\ log' = <<>>
    /\ files_at_start' = files
    /\ prev_completed' = (pc = "done")
    /\ UNCHANGED <<inputs, files>>

Next ==
    \/ FetchRotationData
    \/ HaltNoRotation
    \/ LoadDates
    \/ EndNoDates
    \/ StartGenerate
    \/ ProcessGame
    \/ FinishGenerate
    \/ Rerun

\* ---- inputs ----
SeqsUpTo(S, n) == UNION {[1..k -> S] : k \in 0..n}

ValidDate == <<"2", "0", "2", "4", "0", "1", "1", "5">>
BadMonthDate == <<"2", "0", "2", "4", "1", "3", "0", "1">>
OldSeason == <<"2", "0", "1", "2", "-", "1", "3">>
NewSeason == <<"2", "0", "2", "3", "-", "2", "4">>

TeamName(id) == <<"Team ", Str(id)>>

NoPbp == [exists |-> FALSE, parses |-> FALSE, rows |-> <<>>]
BadPbp == [exists |-> TRUE, parses |-> FALSE, rows |-> <<>>]
Pbp(rows) == [exists |-> TRUE, parses |-> TRUE, rows |-> rows]

\* Content of an output file that was written before the first run.
EarlierRecord == [status |-> "Earlier"]

RECURSIVE Concat(_, _)
Concat(f, n) == IF n = 0 THEN <<>> ELSE Concat(f, n - 1) \o f[n]

\* The tables and files given by one input description per game:
\* gin[g] = [dates, date, season, rot, pbp, pre].
RotationOf(gin) ==
    Concat([g \in GameIds |->
              [i \in 1..Len(gin[g].rot) |->
                 [GAME_ID |-> g, TEAM_ID |-> gin[g].rot[i].TEAM_ID,
                  TEAM_NAME |-> TeamName(gin[g].rot[i].TEAM_ID),
                  PERSON_ID |-> gin[g].rot[i].PERSON_ID,
                  PLAYER_FIRST |-> "First", PLAYER_LAST |-> "Last",
                  IN_TIME_REAL |-> gin[g].rot[i].IN_TIME_REAL]]], MaxGames)

DatesOf(gin) ==
    Concat([g \in GameIds |->
              [i \in 1..Len(gin[g].dates) |->
                 [GAME_ID |-> g, team |-> gin[g].dates[i].team,
                  HTM |-> gin[g].dates[i].HTM, TEAM_ID |-> gin[g].dates[i].TEAM_ID,
                  date |-> gin[g].date, season |-> gin[g].season]]], MaxGames)

InitWith(gin, start) ==
    /\ pc = start
    /\ run = 1
    /\ rotation_disk = RotationOf(gin)
    /\ dates_remote = DatesOf(gin)
    /\ pbp_files = [g \in GameIds |-> gin[g].pbp]
    /\ rotation_data = IF start = "main" THEN <<>> ELSE RotationOf(gin)
    /\ dates_data = IF start = "main" THEN <<>> ELSE SeasonFilter(DatesOf(gin))
    /\ files = [g \in GameIds |-> IF gin[g].pre THEN Some(EarlierRecord) ELSE None]
    /\ game_ids = IF start = "main" THEN <<>>
                  ELSE Unique(Column(SeasonFilter(DatesOf(gin)), RowGameId))
    /\ idx = 1
    /\ generated_count = 0
    /\ skipped_count = 0
    /\ log = <<>>
    /\ files_at_start = [g \in GameIds |-> IF gin[g].pre THEN Some(EarlierRecord) ELSE None]
    /\ prev_completed = FALSE

DateRow(team, id) == [team |-> team, HTM |-> "ATL", TEAM_ID |-> id]
RotRow(team, person, in_time) ==
    [TEAM_ID |-> team, PERSON_ID |-> person, IN_TIME_REAL |-> in_time]
PbpRow(desc, team, score) ==
    [HOMEDESCRIPTION |-> desc, PLAYER1_TEAM_ID |-> team, SCORE |-> score]

GoodScore == <<"1", "0", "2", " ", "-", " ", "9", "8">>

\* Whole-script inputs: per game, one of a few date tables and play-by-play
\* files with rotation rows of two teams, with or without an output file from
\* an earlier run, or a game the rotation files have no row of.
HomeAway == <<DateRow("ATL", 1), DateRow("BOS", 2)>>
AwayOnly == <<DateRow("BOS", 2)>>
MainDates ==
    {<<<<>>, ValidDate, NewSeason>>,
     <<HomeAway, ValidDate, NewSeason>>,
     <<HomeAway, BadMonthDate, NewSeason>>,
     <<HomeAway, ValidDate, OldSeason>>,
     <<AwayOnly, ValidDate, NewSeason>>}
TwoTeams == <<RotRow(1, 11, 0), RotRow(2, 21, 0), RotRow(1, 12, 300)>>
GoodPbp == Pbp(<<PbpRow(<<"d">>, Some(1), NaN), PbpRow(NaN, Some(2), GoodScore)>>)
MainPbps == {NoPbp, GoodPbp}

Input(d, date, season, r, p, e) ==
    [dates |-> d, date |-> date, season |-> season, rot |-> r, pbp |-> p, pre |-> e]

MainInputs ==
    {Input(d[1], d[2], d[3], TwoTeams, p, e) :
        d \in MainDates, p \in MainPbps, e \in BOOLEAN} \cup
    {Input(HomeAway, ValidDate, NewSeason, <<>>, GoodPbp, FALSE)}

Init == \E gin \in [GameIds -> MainInputs] : InitWith(gin, "main")

Spec == Init /\ [][Next]_vars

\* ---- generate_game_files on its own ----
\* The loop of generate_game_files, entered with the frames already loaded.
NextLoop ==
    \/ ProcessGame
    \/ FinishGenerate

\* An ordinary game: home and away rows in the dates table, both teams in the
\* rotation rows, a play-by-play file with a final score.
Ordinary == Input(HomeAway, ValidDate, NewSeason, TwoTeams, GoodPbp, FALSE)

\* Game 1 takes the described input, every other game is an ordinary one.
Focus(in) == [g \in GameIds |-> IF g = 1 THEN in ELSE Ordinary]

\* Team resolution. On the primary side: every dates table within the bound
\* with a few rotation tables and play-by-play files. On the fallback side:
\* dates tables without a home row or without an away row with every rotation
\* team list and play-by-play team column within the bounds.
Abbrevs == {"ATL", "BOS"}
DateTeamIds == {0, 1, 2}
RotTeamIds == {1, 2, 3}
PbpTeamIds == {NaN, Some(0), Some(1), Some(2)}

RotOfTeams(ts) == [i \in 1..Len(ts) |-> RotRow(ts[i], 10 * ts[i] + i, 0)]
HomeEvent(t) == Pbp(<<PbpRow(<<"d">>, t, NaN)>>)

PrimaryDates == SeqsUpTo({DateRow(t, id) : t \in Abbrevs, id \in DateTeamIds}, MaxDateRows)
PrimaryRots == {<<>>, RotOfTeams(<<1>>), RotOfTeams(<<2, 1>>)}
PrimaryPbps == {NoPbp, HomeEvent(Some(1)), HomeEvent(Some(2))}

FallbackDates ==
    {<<DateRow("BOS", 2)>>, <<DateRow("ATL", 1)>>, <<DateRow("BOS", 1), DateRow("BOS", 2)>>}
FallbackRots == {RotOfTeams(ts) : ts \in SeqsUpTo(RotTeamIds, MaxRotRows)}
FallbackPbps ==
    {NoPbp, BadPbp} \cup
    {Pbp(rows) : rows \in SeqsUpTo({PbpRow(<<"d">>, t, NaN) : t \in PbpTeamIds} \cup
                                   {PbpRow(NaN, NaN, NaN), PbpRow(NaN, Some(2), NaN)},
                                   MaxPbpRows)}

InitTeams ==
    \/ \E d \in PrimaryDates, r \in PrimaryRots, p \in PrimaryPbps :
          InitWith(Focus(Input(d, ValidDate, NewSeason, r, p, FALSE)), "loop")
    \/ \E d \in FallbackDates, r \in FallbackRots, p \in FallbackPbps :
          InitWith(Focus(Input(d, ValidDate, NewSeason, r, p, FALSE)), "loop")

SpecTeams == InitTeams /\ [][NextLoop]_vars

\* Score extraction: every SCORE string over the alphabet within the bound and
\* a few longer ones, followed by an empty SCORE cell; some of them followed by
\* a second non-empty cell.
ScoreAlphabet == {"1", "2", " ", "-", "x"}
LongerScores ==
    {GoodScore,
     <<"1", " ", "-", " ", "2", " ", "-", " ", "1">>,
     <<" ", "-", " ", " ", "-", " ">>,
     <<" ", "-", " ", "-", " ", "1">>,
     <<"+", "1", " ", "-", " ", "-", "2">>,
     <<"1", "_", "2", " ", "-", " ", "2", "1">>,
     <<"1", "_", " ", "-", " ", "2">>,
     <<"1", ".", "0", " ", "-", " ", "2">>}
ScoreCells == (SeqsUpTo(ScoreAlphabet, MaxLen) \ {<<>>}) \cup LongerScores \cup {NaN}
LaterScore == <<"2", " ", "-", " ", "1">>

ScorePbps ==
    {NoPbp, BadPbp} \cup
    {Pbp(<<PbpRow(<<"d">>, Some(1), c), PbpRow(NaN, Some(2), NaN)>>) : c \in ScoreCells} \cup
    {Pbp(<<PbpRow(<<"d">>, Some(1), c), PbpRow(NaN, Some(2), LaterScore)>>) :
        c \in LongerScores \cup {NaN}}

InitScore ==
    \E p \in ScorePbps :
        InitWith(Focus(Input(HomeAway, ValidDate, NewSeason, TwoTeams, p, FALSE)), "loop")

SpecScore == InitScore /\ [][NextLoop]_vars

\* Starters: every rotation table within the bound over two teams, three
\* entry times and two person ids per team.
StarterTimes == {0, 1, 300}
StarterRows ==
    {RotRow(t, 10 * t + k, in_time) : t \in {1, 2}, k \in {1, 2}, in_time \in StarterTimes}

InitStarters ==
    \E r \in SeqsUpTo(StarterRows, MaxStarterRows) :
        InitWith(Focus(Input(HomeAway, ValidDate, NewSeason, r, GoodPbp, FALSE)), "loop")

SpecStarters == InitStarters /\ [][NextLoop]_vars

\* ---- properties ----
Logged(g, text) == \E i \in 1..Len(log) : log[i] = Msg(g, text)

FallbackNotice == "Info not in dates file. Trying PBP fallback..."

Warned(g) ==
    \E i \in 1..Len(log) :
        /\ log[i].game = g
        /\ log[i].msg # FallbackNotice
        /\ log[i].msg # "Error processing PBP file"

\* The loop of the current run has gone past game g.
Processed(g) == \E i \in 1..Len(game_ids) : i < idx /\ game_ids[i] = g

\* The output file of game g holds a record written by the assembler.
Emitted(g) == files[g] # None /\ files[g] # Some(EarlierRecord)

DateRowsOf(g) == {i \in 1..Len(dates_data) : dates_data[i].GAME_ID = g}
RotRowsOf(g) == {i \in 1..Len(rotation_data) : rotation_data[i].GAME_ID = g}
Least(S) == CHOOSE i \in S : \A j \in S : i <= j
Greatest(S) == CHOOSE i \in S : \A j \in S : j <= i

\* C1: a step of the loop that reaches a game whose output file exists leaves
\* every output file as it is, writes no file and counts the game as skipped.
C1_ExistingFileSkipped ==
    [][(pc = "loop" /\ idx <= Len(game_ids) /\ files[game_ids[idx]] # None)
         => /\ files' = files
            /\ skipped_count' = skipped_count + 1
            /\ generated_count' = generated_count
            /\ pc' = "loop"]_vars

C1_Witness ==
    \E g \in GameIds :
        /\ Processed(g)
        /\ files_at_start[g] = Some(EarlierRecord)
        /\ files[g] = Some(EarlierRecord)
        /\ skipped_count >= 1
        /\ DateRowsOf(g) # {}
        /\ RotRowsOf(g) # {}
        /\ pbp_files[g].exists

HomeRowsOf(g) == {i \in DateRowsOf(g) : dates_data[i].team = dates_data[i].HTM}
AwayRowsOf(g) == {i \in DateRowsOf(g) : dates_data[i].team # dates_data[i].HTM}
HomeDescRowsOf(g) ==
    {i \in 1..Len(pbp_files[g].rows) : pbp_files[g].rows[i].HOMEDESCRIPTION # NaN}

\* C2: when the dates table has a home row and an away row for a game, the
\* fallback is not entered for it and an emitted record carries the team ids
\* of the first home row and of the first away row.
C2_PrimaryResolution ==
    \A g \in GameIds :
        (HomeRowsOf(g) # {} /\ AwayRowsOf(g) # {}) =>
            /\ ~Logged(g, FallbackNotice)
            /\ Emitted(g) =>
                  /\ files[g][1].homeTeam.logo = Logo(dates_data[Least(HomeRowsOf(g))].TEAM_ID)
                  /\ files[g][1].awayTeam.logo = Logo(dates_data[Least(AwayRowsOf(g))].TEAM_ID)
                  /\ files[g][1].homeTeam.name = TeamName(dates_data[Least(HomeRowsOf(g))].TEAM_ID)
                  /\ files[g][1].awayTeam.name = TeamName(dates_data[Least(AwayRowsOf(g))].TEAM_ID)

\* A record emitted on the primary path although the first home-description
\* row of the play-by-play file names the other team.
C2_Witness ==
    /\ Emitted(1)
    /\ HomeRowsOf(1) # {} /\ AwayRowsOf(1) # {}
    /\ HomeDescRowsOf(1) # {}
    /\ pbp_files[1].rows[Least(HomeDescRowsOf(1))].PLAYER1_TEAM_ID =
          Some(dates_data[Least(AwayRowsOf(1))].TEAM_ID)

RotTeamsOf(g) == {rotation_data[i].TEAM_ID : i \in RotRowsOf(g)}

\* C3: when the run completes, a game with no row in the dates table, two
\* distinct rotation team ids and a home-description row in its play-by-play
\* file has gone through the fallback without a warning.
C3_AbsentGameResolved ==
    pc = "done" =>
        \A g \in GameIds :
            (/\ \A i \in 1..Len(dates_remote) : dates_remote[i].GAME_ID # g
             /\ Cardinality(RotTeamsOf(g)) >= 2
             /\ pbp_files[g].parses /\ HomeDescRowsOf(g) # {}
             /\ files_at_start[g] = None)
            => (Logged(g, FallbackNotice) /\ ~Warned(g))

ScoreRowsOf(g) == {i \in 1..Len(pbp_files[g].rows) : pbp_files[g].rows[i].SCORE # NaN}
LastScoreOf(g) == pbp_files[g].rows[Greatest(ScoreRowsOf(g))].SCORE
HasScore(g) == pbp_files[g].exists /\ pbp_files[g].parses /\ ScoreRowsOf(g) # {}

Separator == <<" ", "-", " ">>
SeparatorAt(s) == {i \in 1..Len(s) : i + 2 <= Len(s) /\ SubSeq(s, i, i + 2) = Separator}
IntChars == {DigitChars[i] : i \in 1..10} \cup {" ", "+", "-", "_"}
ScoreValues == (0..22) \cup {98, 102}
Numeral == [n \in ScoreValues |-> Str(n)]

\* C4: once game 1 (ordinary but for its play-by-play file) is processed its
\* record is emitted; "<h> - <a>" as the last non-empty SCORE gives home h and
\* away a; a missing or unreadable file, an all-empty SCORE column, a string
\* without the separator, with two separated separators or with a character
\* no integer has gives null/null; the scores are both integers or both null.
C4_FinalScore ==
    Processed(1) =>
        /\ Emitted(1)
        /\ LET home == files[1][1].homeTeam.score
               away == files[1][1].awayTeam.score
           IN  /\ (home = None) <=> (away = None)
               /\ ~HasScore(1) => home = None
               /\ HasScore(1) =>
                     LET s == LastScoreOf(1)
                     IN  /\ \A i \in SeparatorAt(s) : \A h \in ScoreValues :
                               SubSeq(s, 1, i - 1) = Numeral[h] =>
                                   \A a \in ScoreValues :
                                       SubSeq(s, i + 3, Len(s)) = Numeral[a] =>
                                           home = Some(h) /\ away = Some(a)
                         /\ SeparatorAt(s) = {} => home = None
                         /\ (\E i, j \in SeparatorAt(s) : j >= i + 3) => home = None
                         /\ (\E i \in 1..Len(s) : s[i] \notin IntChars) => home = None

C4_Witness ==
    /\ Processed(1)
    /\ HasScore(1)
    /\ LastScoreOf(1) = GoodScore
    /\ Greatest(ScoreRowsOf(1)) = 1
    /\ files[1][1].homeTeam.score = Some(102)
    /\ files[1][1].awayTeam.score = Some(98)

StarterRowsOf(g) == {i \in RotRowsOf(g) : rotation_data[i].IN_TIME_REAL = 0}

RECURSIVE Ascending(_)
\* The members of a set of row positions, in order.
Ascending(S) == IF S = {} THEN <<>> ELSE <<Least(S)>> \o Ascending(S \ {Least(S)})

\* C5: the starter_on field of an emitted record, cut at its commas, lists the
\* person ids of exactly the game's rotation rows whose entry time is 0, in
\* row order; it is the empty string when there is no such row.
C5_Starters ==
    \A g \in GameIds :
        Emitted(g) =>
            LET rows == Ascending(StarterRowsOf(g))
            IN  IF rows = <<>> THEN files[g][1].starter_on = <<>>
                ELSE Split(files[g][1].starter_on, <<",">>) =
                        [k \in 1..Len(rows) |-> Str(rotation_data[rows[k]].PERSON_ID)]

\* Starters of both teams next to a row that entered later.
C5_Witness ==
    /\ Emitted(1)
    /\ \E i, j \in StarterRowsOf(1) : rotation_data[i].TEAM_ID # rotation_data[j].TEAM_ID
    /\ \E i \in RotRowsOf(1) : rotation_data[i].IN_TIME_REAL = 1

BadDateGame(g) == DateRowsOf(g) # {} /\ dates_data[Least(DateRowsOf(g))].date # ValidDate

\* C6: no failure met while processing a game ends the run, and a game whose
\* date is not a calendar day gets no output file.
C6_ErrorPolicy ==
    /\ pc # "crashed"
    /\ \A g \in GameIds :
          (Processed(g) /\ BadDateGame(g) /\ files_at_start[g] = None) => files[g] = None

\* C7: generate_game_files runs only on a non-empty rotation table and a
\* non-empty season-filtered dates table; until then, and when the script ends
\* without it, the output files are untouched and a failed load has printed
\* its message.
C7_LoadGate ==
    /\ pc \in {"loop", "done", "crashed"} =>
          /\ rotation_data # <<>>
          /\ dates_data # <<>>
          /\ \A i \in 1..Len(dates_data) : dates_data[i].season # OldSeason
    /\ pc \in {"main", "rotation_loaded", "dates_loaded", "ended"} =>
          /\ files = files_at_start
          /\ generated_count = 0
    /\ pc = "ended" =>
          IF rotation_data = <<>>
          THEN /\ Logged(0, "Halting execution because no rotation data could be loaded.")
               /\ \/ Logged(0, "--- Halting execution: No team IDs were loaded. ---")
                  \/ Logged(0, "Warning: No rotation data was loaded.")
          ELSE /\ dates_data = <<>>
               /\ \/ Logged(0, "Fatal Error: Could not load game dates file from URL.")
                  \/ \A i \in 1..Len(dates_remote) : dates_remote[i].season = OldSeason

C7_Witness ==
    /\ pc = "ended"
    /\ Logged(0, "Fatal Error: Could not load game dates file from URL.")
    /\ \E i \in 1..Len(dates_remote) : dates_remote[i].season = NewSeason
    /\ \E g \in GameIds : files[g] = None /\ RotRowsOf(g) # {}

\* C8: in a run that follows a completed run on the same inputs no file is
\* generated and the output directory stays as the completed run left it.
C8_Idempotent ==
    prev_completed => (files = files_at_start /\ generated_count = 0)

C8_Witness ==
    /\ prev_completed
    /\ pc = "done"
    /\ skipped_count >= 1
    /\ \E g \in GameIds : Emitted(g)
    /\ \E g \in GameIds : Processed(g) /\ files[g] = None

\* C9: for a game with date rows but no home row or no away row, the fallback
\* is entered; an emitted record has as home the team id of the first
\* play-by-play row with a home description and as away the first rotation
\* team id other than it; without a play-by-play file, a home-description row
\* or two distinct rotation team ids no file is written and a warning is
\* printed.
C9_Fallback ==
    \A g \in GameIds :
        (/\ Processed(g)
         /\ files_at_start[g] = None
         /\ RotRowsOf(g) # {}
         /\ DateRowsOf(g) # {}
         /\ (HomeRowsOf(g) = {} \/ AwayRowsOf(g) = {}))
        => /\ Logged(g, FallbackNotice)
           /\ Emitted(g) =>
                 /\ pbp_files[g].exists
                 /\ HomeDescRowsOf(g) # {}
                 /\ LET home == pbp_files[g].rows[Least(HomeDescRowsOf(g))].PLAYER1_TEAM_ID
                        others == {i \in RotRowsOf(g) : Some(rotation_data[i].TEAM_ID) # home}
                    IN  /\ home # NaN
                        /\ files[g][1].homeTeam.logo = Logo(home[1])
                        /\ others # {}
                        /\ files[g][1].awayTeam.logo = Logo(rotation_data[Least(others)].TEAM_ID)
           /\ (\/ ~pbp_files[g].exists
               \/ HomeDescRowsOf(g) = {}
               \/ Cardinality(RotTeamsOf(g)) < 2)
              => (files[g] = None /\ Warned(g))

\* A record emitted through the fallback from a file with two home-description
\* rows naming different teams.
C9_Witness ==
    /\ Emitted(1)
    /\ Logged(1, FallbackNotice)
    /\ \E i, j \in HomeDescRowsOf(1) :
          pbp_files[1].rows[i].PLAYER1_TEAM_ID # pbp_files[1].rows[j].PLAYER1_TEAM_ID

\* C10: an emitted record has two different team ids, each with a rotation row
\* of the game; a game without rotation rows or date rows has no record.
C10_DistinctTeams ==
    \A g \in GameIds :
        Emitted(g) =>
            /\ files[g][1].homeTeam.logo # files[g][1].awayTeam.logo
            /\ \E i \in RotRowsOf(g) : Logo(rotation_data[i].TEAM_ID) = files[g][1].homeTeam.logo
            /\ \E i \in RotRowsOf(g) : Logo(rotation_data[i].TEAM_ID) = files[g][1].awayTeam.logo
            /\ DateRowsOf(g) # {}

====
